---- MODULE Spec2Model ----
(***************************************************************************)
(* Publish orchestration, due-post poller and rate limiter of the TikTok   *)
(* manager backend (src/backend).                                          *)
(*                                                                         *)
(* One ScheduledPost row is followed through every handler that writes it: *)
(* the Celery task publish_post, the periodic task check_scheduled_posts,  *)
(* PostService.publish_now / update_post, bulk_schedule_posts and          *)
(* retry_slideshow_conversion.  Every handler keeps its own in-memory copy *)
(* of the row, and Model.save() writes the whole copy back, as Django does.*)
(* The rate limiter is modelled over the operations of the Redis cache     *)
(* backend (exists / INCR / SET NX).                                       *)
(***************************************************************************)
EXTENDS Integers, Sequences, FiniteSets, TLC

\* ---------------------------------------------------------------- bounds
Accounts == {"a1", "a2"}
Workers == {"w1", "w2"}
Pollers == {"p1", "p2"}
MaxCycles == 2          \* publish cycles (task or publish_now) followed per behaviour
MaxRetriesChoices == {1, 2}
MaxFaults == 1          \* database errors injected per behaviour
MaxEdits == 1           \* update / slideshow-retry requests followed per behaviour
Callers == {"c1", "c2", "c3"}
Refreshers == {"t1", "t2", "t3"}
MaxCallsMade == 4       \* calls of is_allowed followed per behaviour
MaxCallsChoices == {1, 2}
MaxLapses == 1          \* resets of the rate-limit key followed per behaviour
MaxFileSize == 23       \* largest video file followed, in units of 1 MiB
MaxRetryCount == 4      \* largest retry_count of a row given to the poller
MaxBudget == 4          \* largest max_retries of a row given to the poller
MaxRetryRequests == 1   \* calls of the slideshow retry endpoint followed per behaviour
MaxPollAttempts == 3    \* largest max_poll_attempts followed
SlideWorkers == {"s1", "s2"}

\* ---------------------------------------------------- program constants
TaskMaxRetries == 3     \* @shared_task(bind=True, max_retries=3)
MIN_CHUNK_SIZE == 5     \* TikTokPublishService.MIN_CHUNK_SIZE, in units of 1 MiB
PollRetryLimit == 3     \* retry_count__lt=3 in check_scheduled_posts
SlideMaxRetries == 2    \* @shared_task(bind=True, max_retries=2) of convert_slideshow
ChunkMaxRetries == 3    \* max_retries: int = 3 of _upload_single_chunk

VARIABLES
    post,        \* the ScheduledPost row in the database
    maxRetries,  \* post.max_retries (never written by the handlers)
    targets,     \* post.accounts, all of them not deleted
    media,       \* kinds of PostMedia attached to the post
    hist,        \* PublishHistory rows
    queue,       \* publish_post messages in the broker, by request.retries
    wk,          \* Celery workers running publish_post
    pn,          \* the request running PostService.publish_now
    poll,        \* runs of check_scheduled_posts
    uploads,     \* remote publish calls made per account
    accepted,    \* remote publish calls that succeeded per account
    cycles,      \* publish cycles started so far
    pollEnq,     \* publish jobs enqueued by the poller since the post was last scheduled
    faults,      \* database errors raised so far inside the per-account loop
    edits,       \* update and slideshow-retry requests served so far
    noops,       \* publish_post runs that returned 'already_published'
    cache,       \* the counter stored under the rate-limit key, 0 when the key is absent
    max_calls,   \* RateLimiter.max_calls
    rl,          \* callers of RateLimiter.is_allowed
    results,     \* what the calls of is_allowed returned, in order of return
    overlap,     \* whether a call started while another was still running
    lapses,      \* resets of the rate-limit key so far
    granted,     \* calls that returned true since the key now in the cache was created
    acct,        \* the TikTokAccount row in the database
    rowLock,     \* the holder of the row lock on the account, or "none"
    tw,          \* callers of refresh_account_token
    idpCalls,    \* calls of TikTokOAuthService.refresh_access_token so far
    file_size,   \* size of the video file being uploaded
    plan,        \* what initiate_video_post declared: chunk_size and total_chunks
    sent,        \* the chunks put to the upload URL so far, in order
    upc,         \* where the upload stands
    flow,        \* "video" for publish_video, "photo" for publish_photos
    puts,        \* the PUT requests made so far, in order, accepted or not
    attempt,     \* `attempt` of _upload_single_chunk for the chunk being sent
    max_poll_attempts, \* the parameter of publish_video / publish_photos
    polls,       \* the statuses the status checks returned so far, in order
    outcome,     \* how the publish call ended, "none" while it runs
    spost,       \* status and error_message of the slideshow post's row
    senv,        \* what a conversion finds: the post, its source images, their files, FFmpeg
    sq,          \* convert_slideshow messages in the broker
    sw,          \* Celery workers running convert_slideshow
    svideos,     \* PostMedia rows of type slideshow_video of the post
    slink,       \* id of the video the source images link to, 0 for none
    sruns,       \* executions of convert_slideshow started per job
    sreqs        \* retry requests served so far

pubVars == <<post, maxRetries, targets, media, hist, queue, wk, pn, poll,
             uploads, accepted, cycles, pollEnq, faults, edits, noops>>

rlVars == <<cache, max_calls, rl, results, overlap, lapses, granted>>

tokVars == <<acct, rowLock, tw, idpCalls>>

\* what the handlers of one component leave alone
chunkVars == <<file_size, plan, sent, upc, flow, puts, attempt, max_poll_attempts,
               polls, outcome>>

slideVars == <<spost, senv, sq, sw, svideos, slink, sruns, sreqs>>

besidesPub == <<rlVars, tokVars, chunkVars, slideVars>>

besidesRL == <<pubVars, tokVars, chunkVars, slideVars>>

besidesTok == <<pubVars, rlVars, chunkVars, slideVars>>

besidesChunk == <<pubVars, rlVars, tokVars, slideVars>>

besidesSlide == <<pubVars, rlVars, tokVars, chunkVars>>

vars == <<post, maxRetries, targets, media, hist, queue, wk, pn, poll,
          uploads, accepted, cycles, pollEnq, faults, edits, noops,
          cache, max_calls, rl, results, overlap, lapses, granted,
          acct, rowLock, tw, idpCalls,
          file_size, plan, sent, upc, flow, puts, attempt, max_poll_attempts,
          polls, outcome,
          spost, senv, sq, sw, svideos, slink, sruns, sreqs>>

Statuses == {"draft", "scheduled", "pending", "publishing", "published", "failed"}

\* ------------------------------------------------------------- helpers
AccountOrder == <<"a1", "a2">>

\* the rows of a queryset over accounts, in the database's iteration order
QuerySet(S) == SelectSeq(AccountOrder, LAMBDA a : a \in S)

NoPost == [status |-> "draft", retry_count |-> 0, err |-> FALSE, pub |-> FALSE, sched |-> "none"]

NoRow == [cyc |-> 0, acct |-> "none", n |-> 0]

IdleWorker == [pc |-> "idle", retries |-> 0, lp |-> NoPost, todo |-> <<>>,
               allok |-> TRUE, hid |-> NoRow, cyc |-> 0, countdown |-> 0]

IdleRequest == [pc |-> "idle", lp |-> NoPost, todo |-> <<>>, anyok |-> FALSE, cyc |-> 0]

IdlePoller == [pc |-> "idle", arrived |-> FALSE]

IdleCaller == [pc |-> "idle"]

\* an account object in memory: the token (by generation), whether it expires
\* more than one hour from now, status and last_error
NoAccount == [gen |-> 0, fresh |-> TRUE, status |-> "active", last_error |-> FALSE]

IdleRefresher == [pc |-> "idle", kind |-> "publish", copy |-> NoAccount,
                  skipped |-> FALSE, ret |-> NoAccount,
                  refreshed |-> 0, failed |-> 0]

\* primary key of a PublishHistory row: the n-th row of a cycle for an account
RowKey(r) == [cyc |-> r.cyc, acct |-> r.acct, n |-> r.n]

RowsOf(h, c, a) == {r \in h : r.cyc = c /\ r.acct = a}

\* PublishHistory.objects.create(post, account, status, error_message)
CreateRow(h, c, a, st, e) ==
    h \cup {[cyc |-> c, acct |-> a, n |-> Cardinality(RowsOf(h, c, a)) + 1,
             status |-> st, err |-> e]}

\* history.save() of an in-memory row whose status / error_message were set
SaveRow(h, k, st, e) ==
    {IF RowKey(r) = k THEN [r EXCEPT !.status = st, !.err = e] ELSE r : r \in h}

RowAt(h, k) == CHOOSE r \in h : RowKey(r) = k

\* video_media: the first media row of type video or slideshow_video
HasVideoMedia == "video" \in media \/ "slideshow_video" \in media

Enqueue(q, r) == [q EXCEPT ![r] = @ + 1]

\* Task.retry of Celery: the new message carries request.retries + 1 and is
\* sent unless that exceeds the task's max_retries; either way an exception
\* (Retry, or the given exc) is raised to the caller.
TaskRetry(q, r) == IF r + 1 <= TaskMaxRetries THEN Enqueue(q, r + 1) ELSE q

\* publish_post_task.py 386 and 419
retry_delays == <<300, 900, 1800>>

\* lines 387 and 420: retry_delays[min(post.retry_count, len(retry_delays) - 1)]
\* on a list indexed from 0
RetryDelay(retry_count) ==
    retry_delays[(IF retry_count < Len(retry_delays) - 1
                  THEN retry_count ELSE Len(retry_delays) - 1) + 1]

\* ------------------------------------------------------------------ Init
\* no call of the rate limiter under way
RlQuiet ==
    /\ cache = 0
    /\ max_calls = 1
    /\ rl = [c \in Callers |-> IdleCaller]
    /\ results = <<>>
    /\ overlap = FALSE
    /\ lapses = 0
    /\ granted = 0

\* no token refresh under way
TokQuiet ==
    /\ acct = NoAccount
    /\ rowLock = "none"
    /\ tw = [t \in Refreshers |-> IdleRefresher]
    /\ idpCalls = 0

NoPlan == [chunk_size |-> 0, total_chunks |-> 0]

\* no chunked upload under way
ChunkQuiet ==
    /\ file_size = 0
    /\ plan = NoPlan
    /\ sent = <<>>
    /\ upc = "idle"
    /\ flow = "video"
    /\ puts = <<>>
    /\ attempt = 0
    /\ max_poll_attempts = 1
    /\ polls = <<>>
    /\ outcome = "none"

Jobs == 1..(1 + MaxRetryRequests)

IdleSlideWorker == [pc |-> "idle", job |-> 0, retries |-> 0]

\* no slideshow conversion under way
SlideQuiet ==
    /\ spost = [status |-> "draft", err |-> FALSE]
    /\ senv = [post |-> TRUE, images |-> TRUE, files |-> TRUE, ffmpeg |-> TRUE]
    /\ sq = {}
    /\ sw = [w \in SlideWorkers |-> IdleSlideWorker]
    /\ svideos = {}
    /\ slink = 0
    /\ sruns = [j \in Jobs |-> 0]
    /\ sreqs = 0

Init ==
    /\ \E st \in {"draft", "pending"} :
       \E sc \in {"soon", "due"} :
          post = [status |-> st, retry_count |-> 0, err |-> FALSE, pub |-> FALSE,
                  sched |-> IF st = "scheduled" THEN sc ELSE "none"]
    /\ maxRetries \in MaxRetriesChoices
    /\ targets \in {{}, {"a1"}, {"a1", "a2"}}
    /\ media \in {{"video"}, {"slideshow_source"}, {"slideshow_source", "video"}}
    /\ hist = {}
    /\ queue = [r \in 0..TaskMaxRetries |-> 0]
    /\ wk = [w \in Workers |-> IdleWorker]
    /\ pn = IdleRequest
    /\ poll = [p \in Pollers |-> IdlePoller]
    /\ uploads = [a \in Accounts |-> 0]
    /\ accepted = [a \in Accounts |-> 0]
    /\ cycles = 0
    /\ pollEnq = 0
    /\ faults = 0
    /\ edits = 0
    /\ noops = 0
    /\ RlQuiet
    /\ TokQuiet
    /\ ChunkQuiet
    /\ SlideQuiet

\* ------------------------------------------------- check_scheduled_posts
\* lines 34-40: the filter of the queryset
Selected(row) ==
    /\ row.status = "scheduled"
    /\ row.sched \in {"soon", "due"}
    /\ row.retry_count < PollRetryLimit

\* lines 28-53: the queryset is evaluated once; `now` is fixed at line 28
PollQuery(p) ==
    /\ poll[p].pc = "idle"
    /\ Selected(post)
    /\ poll' = [poll EXCEPT ![p] = [pc |-> "loop", arrived |-> (post.sched = "due")]]
    /\ UNCHANGED <<post, maxRetries, targets, media, hist, queue, wk, pn,
                   uploads, accepted, cycles, pollEnq, faults, edits, noops>>
    /\ UNCHANGED besidesPub

\* lines 55-83: save(update_fields=['status', 'updated_at']) then delay()
PollProcess(p) ==
    /\ poll[p].pc = "loop"
    /\ poll' = [poll EXCEPT ![p] = IdlePoller]
    /\ IF poll[p].arrived
       THEN /\ post' = [post EXCEPT !.status = "pending"]
            /\ queue' = Enqueue(queue, 0)
            /\ pollEnq' = pollEnq + 1
       ELSE UNCHANGED <<post, queue, pollEnq>>
    /\ UNCHANGED <<maxRetries, targets, media, hist, wk, pn,
                   uploads, accepted, cycles, faults, edits, noops>>
    /\ UNCHANGED besidesPub

\* lines 58-73: the row is saved as 'pending', then publish_post.delay()
\* raises (the broker does not take the message); the except clause logs
\* and the loop goes on
PollProcessRaises(p) ==
    /\ poll[p].pc = "loop"
    /\ poll[p].arrived
    /\ faults < MaxFaults
    /\ faults' = faults + 1
    /\ poll' = [poll EXCEPT ![p] = IdlePoller]
    /\ post' = [post EXCEPT !.status = "pending"]
    /\ UNCHANGED <<maxRetries, targets, media, hist, queue, wk, pn,
                   uploads, accepted, cycles, pollEnq, edits, noops>>
    /\ UNCHANGED besidesPub

\* ----------------------------------------------------------- publish_post
\* a status check that lets every post through
AlreadyPublishedM(p) == FALSE

\* line 223
AlreadyPublished(p) == p.status = "published"

\* lines 214-232: the row-locked status check; with target accounts the
\* task goes on to the loop of line 256.  A retry message carries a
\* countdown of at least 300 s (lines 387-391), so it is delivered after the
\* run that sent it has returned.
PublishStart(w) ==
    /\ wk[w].pc = "idle"
    /\ \E r \in 0..TaskMaxRetries :
         /\ queue[r] > 0
         /\ r > 0 => \A v \in Workers : wk[v].pc # "handler"
         /\ queue' = [queue EXCEPT ![r] = @ - 1]
         /\ IF AlreadyPublished(post)
            THEN /\ noops' = noops + 1
                 /\ UNCHANGED <<post, cycles, wk>>
            ELSE /\ cycles < MaxCycles
                 /\ UNCHANGED noops
                 /\ post' = [post EXCEPT !.status = "publishing"]
                 /\ cycles' = cycles + 1
                 /\ wk' = [wk EXCEPT ![w] =
                             [IdleWorker EXCEPT !.pc = IF targets = {} THEN "accounts" ELSE "create",
                                                !.retries = r, !.lp = post',
                                                !.todo = QuerySet(targets),
                                                !.cyc = cycles + 1]]
    /\ UNCHANGED <<maxRetries, targets, media, hist, pn, poll,
                   uploads, accepted, pollEnq, faults, edits>>
    /\ UNCHANGED besidesPub

MarkNoAccountsM(p) == [p EXCEPT !.status = "failed", !.err = TRUE, !.retry_count = @ + 1]

\* lines 235-237: status, error_message, save()
MarkNoAccounts(p) == [p EXCEPT !.status = "failed", !.err = TRUE]

\* lines 234-239: no active account
PublishNoAccounts(w) ==
    /\ wk[w].pc = "accounts"
    /\ post' = MarkNoAccounts(wk[w].lp)
    /\ wk' = [wk EXCEPT ![w] = IdleWorker]
    /\ UNCHANGED <<maxRetries, targets, media, hist, queue, pn, poll,
                   uploads, accepted, cycles, pollEnq, faults, edits, noops>>
    /\ UNCHANGED besidesPub

\* after one account's iteration: the next account, or line 365
NextAccount(w, ok) ==
    [wk EXCEPT ![w].todo = Tail(@),
               ![w].allok = @ /\ ok,
               ![w].pc = IF Len(wk[w].todo) = 1 THEN "finish" ELSE "create"]

\* lines 257-263: PublishHistory.objects.create(..., status='failed')
PublishCreate(w) ==
    /\ wk[w].pc = "create"
    /\ LET a == Head(wk[w].todo) IN
       /\ hist' = CreateRow(hist, wk[w].cyc, a, "failed", FALSE)
       /\ wk' = [wk EXCEPT ![w].pc = "attempt",
                           ![w].hid = [cyc |-> wk[w].cyc, acct |-> a,
                                       n |-> Cardinality(RowsOf(hist, wk[w].cyc, a)) + 1]]
    /\ UNCHANGED <<post, maxRetries, targets, media, queue, pn, poll,
                   uploads, accepted, cycles, pollEnq, faults, edits, noops>>
    /\ UNCHANGED besidesPub

\* lines 257-263 raising, then lines 348-363: `history` is still bound to the
\* row of the previous iteration when create() raised in this one
PublishCreateRaises(w) ==
    /\ wk[w].pc = "create"
    /\ faults < MaxFaults
    /\ faults' = faults + 1
    /\ hist' = IF wk[w].hid # NoRow
               THEN SaveRow(hist, wk[w].hid, RowAt(hist, wk[w].hid).status, TRUE)
               ELSE hist
    /\ wk' = NextAccount(w, FALSE)
    /\ UNCHANGED <<post, maxRetries, targets, media, queue, pn, poll,
                   uploads, accepted, cycles, pollEnq, edits, noops>>
    /\ UNCHANGED besidesPub

\* lines 265-346: the remote publish and the update of the history row
PublishAttempt(w) ==
    /\ wk[w].pc = "attempt"
    /\ LET a == Head(wk[w].todo) IN
       IF ~HasVideoMedia
       THEN \* lines 314-318, 334-338: no remote call
            /\ hist' = SaveRow(hist, wk[w].hid, "failed", TRUE)
            /\ wk' = NextAccount(w, FALSE)
            /\ UNCHANGED <<uploads, accepted>>
       ELSE \E ok \in BOOLEAN :
            /\ uploads' = [uploads EXCEPT ![a] = @ + 1]
            /\ accepted' = [accepted EXCEPT ![a] = @ + (IF ok THEN 1 ELSE 0)]
            /\ hist' = IF ok THEN SaveRow(hist, wk[w].hid, "success", FALSE)
                             ELSE SaveRow(hist, wk[w].hid, "failed", TRUE)
            /\ wk' = NextAccount(w, ok)
    /\ UNCHANGED <<post, maxRetries, targets, media, queue, pn, poll,
                   cycles, pollEnq, faults, edits, noops>>
    /\ UNCHANGED besidesPub

\* lines 365-398
PublishFinish(w) ==
    /\ wk[w].pc = "finish"
    /\ IF wk[w].allok
       THEN /\ post' = [wk[w].lp EXCEPT !.status = "published", !.pub = TRUE, !.err = FALSE]
            /\ wk' = [wk EXCEPT ![w] = IdleWorker]
            /\ UNCHANGED queue
       ELSE LET lp == [wk[w].lp EXCEPT !.status = "failed", !.err = TRUE,
                                       !.retry_count = @ + 1] IN
            /\ post' = lp
            /\ IF lp.retry_count < maxRetries
               THEN \* line 391: self.retry() raises inside the outer try
                    /\ queue' = TaskRetry(queue, wk[w].retries)
                    /\ wk' = [wk EXCEPT ![w] = [IdleWorker EXCEPT !.pc = "handler",
                                                                  !.retries = wk[w].retries,
                                                                  !.countdown = RetryDelay(lp.retry_count)]]
               ELSE /\ wk' = [wk EXCEPT ![w] = IdleWorker]
                    /\ UNCHANGED queue
    /\ UNCHANGED <<maxRetries, targets, media, hist, pn, poll,
                   uploads, accepted, cycles, pollEnq, faults, edits, noops>>
    /\ UNCHANGED besidesPub

\* lines 404-427: `except Exception` also catches what self.retry() raised;
\* the row is fetched again, and the second self.retry() is swallowed by the
\* inner except
PublishHandler(w) ==
    /\ wk[w].pc = "handler"
    /\ LET lp == [post EXCEPT !.status = "failed", !.err = TRUE, !.retry_count = @ + 1] IN
       /\ post' = lp
       /\ queue' = IF lp.retry_count < maxRetries THEN TaskRetry(queue, wk[w].retries) ELSE queue
    /\ wk' = [wk EXCEPT ![w] = IdleWorker]
    /\ UNCHANGED <<maxRetries, targets, media, hist, pn, poll,
                   uploads, accepted, cycles, pollEnq, faults, edits, noops>>
    /\ UNCHANGED besidesPub

\* ------------------------------------------- POST /posts/{id}/publish
\* post_router.py 155-173 and post_service.py 104-110
PublishNowStart ==
    /\ pn.pc = "idle"
    /\ post.status # "published"
    /\ cycles < MaxCycles
    /\ cycles' = cycles + 1
    /\ post' = [post EXCEPT !.status = "publishing"]
    /\ pn' = [pc |-> IF targets = {} THEN "finish" ELSE "attempt", lp |-> post',
              todo |-> QuerySet(targets), anyok |-> FALSE, cyc |-> cycles + 1]
    /\ UNCHANGED <<maxRetries, targets, media, hist, queue, wk, poll,
                   uploads, accepted, pollEnq, faults, edits, noops>>
    /\ UNCHANGED besidesPub

\* post_service.py 115-170: one account of the loop; the history row is
\* created after the upload call returned or raised.  The call to the video
\* service (line 139) is answered by the environment, as the tests of
\* publish_now answer it (test_post_service.py 153, 188); the class
\* TikTokVideoService of this tree defines no upload_video, so in a deployment
\* the call raises and only ok = FALSE occurs.
PublishNowAttempt ==
    /\ pn.pc = "attempt"
    /\ LET a == Head(pn.todo) IN
       \E ok \in BOOLEAN :
         /\ uploads' = [uploads EXCEPT ![a] = @ + 1]
         /\ accepted' = [accepted EXCEPT ![a] = @ + (IF ok THEN 1 ELSE 0)]
         /\ hist' = CreateRow(hist, pn.cyc, a, IF ok THEN "success" ELSE "failed", ~ok)
         /\ pn' = [pn EXCEPT !.todo = Tail(@), !.anyok = @ \/ ok,
                             !.pc = IF Len(pn.todo) = 1 THEN "finish" ELSE "attempt"]
    /\ UNCHANGED <<post, maxRetries, targets, media, queue, wk, poll,
                   cycles, pollEnq, faults, edits, noops>>
    /\ UNCHANGED besidesPub

\* post_service.py 172-191
PublishNowFinish ==
    /\ pn.pc = "finish"
    /\ post' = IF pn.anyok
               THEN [pn.lp EXCEPT !.status = "published", !.pub = TRUE]
               ELSE [pn.lp EXCEPT !.status = "failed", !.err = TRUE]
    /\ pn' = IdleRequest
    /\ UNCHANGED <<maxRetries, targets, media, hist, queue, wk, poll,
                   uploads, accepted, cycles, pollEnq, faults, edits, noops>>
    /\ UNCHANGED besidesPub

\* ------------------------------------------------- PUT /posts/{id}
\* post_service.py 193-219 with a scheduled_time in the data.  A published
\* post is rejected (line 206).  The row is saved as 'scheduled' when
\* _schedule_post (74-90) returns; when it raises, the transaction rolls back
\* and nothing changes (a stuttering step).  The tests of update_post replace
\* _schedule_post; in this tree `publish_post_task` names the module, so in a
\* deployment the call of apply_async on it raises.
UpdatePost ==
    /\ edits < MaxEdits
    /\ edits' = edits + 1
    /\ post.status # "published"
    /\ \E sc \in {"soon", "due"} :
         post' = [post EXCEPT !.status = "scheduled", !.sched = sc]
    /\ pollEnq' = 0
    /\ UNCHANGED <<maxRetries, targets, media, hist, queue, wk, pn, poll,
                   uploads, accepted, cycles, faults, noops>>
    /\ UNCHANGED besidesPub

\* post_router.py 233-256: UPDATE ... WHERE status = 'draft'
BulkSchedule ==
    /\ post.status = "draft"
    /\ \E sc \in {"soon", "due"} :
         post' = [post EXCEPT !.status = "scheduled", !.sched = sc]
    /\ pollEnq' = 0
    /\ UNCHANGED <<maxRetries, targets, media, hist, queue, wk, pn, poll,
                   uploads, accepted, cycles, faults, edits, noops>>
    /\ UNCHANGED besidesPub

\* post_router.py 341-393
RetrySlideshow ==
    /\ edits < MaxEdits
    /\ edits' = edits + 1
    /\ "slideshow_video" \notin media
    /\ "slideshow_source" \in media
    /\ post' = [post EXCEPT !.status = "pending", !.err = FALSE]
    /\ UNCHANGED <<maxRetries, targets, media, hist, queue, wk, pn, poll,
                   uploads, accepted, cycles, pollEnq, faults, noops>>
    /\ UNCHANGED besidesPub

\* ------------------------------------------------------------ RateLimiter
\* The cache is django.core.cache.backends.redis.RedisCache (settings.py
\* 149-156): incr() is EXISTS followed by INCR, add() is SET NX.

\* SET without NX: the key is written whether or not it exists
RedisSetNXM(v) == [ok |-> TRUE, val |-> 1]

\* cache.add(cache_key, 1, self.time_window), line 56
RedisSetNX(v) == IF v = 0 THEN [ok |-> TRUE, val |-> 1] ELSE [ok |-> FALSE, val |-> v]

\* lines 73-81: the call returns new_count <= max_calls
Return(c, new_count) ==
    /\ rl' = [rl EXCEPT ![c] = IdleCaller]
    /\ results' = Append(results, new_count <= max_calls)

InProgress == {c \in Callers : rl[c].pc # "idle"}

\* the true answers counted for the key in the cache after a call wrote
\* new_count: counting starts anew when the write created the key
Granted(new_count) ==
    (IF cache = 0 THEN 0 ELSE granted) + (IF new_count <= max_calls THEN 1 ELSE 0)

\* no publish handler under way
PubQuiet ==
    /\ post = NoPost
    /\ maxRetries = 1
    /\ targets = {}
    /\ media = {"video"}
    /\ hist = {}
    /\ queue = [r \in 0..TaskMaxRetries |-> 0]
    /\ wk = [w \in Workers |-> IdleWorker]
    /\ pn = IdleRequest
    /\ poll = [p \in Pollers |-> IdlePoller]
    /\ uploads = [a \in Accounts |-> 0]
    /\ accepted = [a \in Accounts |-> 0]
    /\ cycles = 0
    /\ pollEnq = 0
    /\ faults = 0
    /\ edits = 0
    /\ noops = 0

InitRL ==
    /\ PubQuiet
    /\ TokQuiet
    /\ ChunkQuiet
    /\ SlideQuiet
    /\ cache = 0
    /\ max_calls \in MaxCallsChoices
    /\ rl = [c \in Callers |-> IdleCaller]
    /\ results = <<>>
    /\ overlap = FALSE
    /\ lapses = 0
    /\ granted = 0

\* line 35: a caller enters is_allowed
IsAllowed(c) ==
    /\ rl[c].pc = "idle"
    /\ Len(results) + Cardinality(InProgress) < MaxCallsMade
    /\ rl' = [rl EXCEPT ![c].pc = "incr"]
    /\ overlap' = (overlap \/ InProgress # {})
    /\ UNCHANGED <<cache, max_calls, results, lapses, granted>>
    /\ UNCHANGED besidesRL

\* lines 50 and 64: the EXISTS of cache.incr; ValueError when the key is absent
CacheExists(c) ==
    /\ rl[c].pc \in {"incr", "incr_again"}
    /\ rl' = [rl EXCEPT ![c].pc = IF cache > 0 THEN "do_" \o rl[c].pc
                                  ELSE IF rl[c].pc = "incr" THEN "add" ELSE "set"]
    /\ UNCHANGED <<cache, max_calls, results, overlap, lapses, granted>>
    /\ UNCHANGED besidesRL

\* lines 50 and 64: the INCR of cache.incr; an absent key counts from 0
CacheIncr(c) ==
    /\ rl[c].pc \in {"do_incr", "do_incr_again"}
    /\ cache' = cache + 1
    /\ Return(c, cache + 1)
    /\ granted' = Granted(cache + 1)
    /\ UNCHANGED <<max_calls, overlap, lapses>>
    /\ UNCHANGED besidesRL

\* lines 56-59, 60-62
CacheAdd(c) ==
    /\ rl[c].pc = "add"
    /\ cache' = RedisSetNX(cache).val
    /\ IF RedisSetNX(cache).ok
       THEN /\ Return(c, 1)
            /\ granted' = Granted(1)
       ELSE /\ rl' = [rl EXCEPT ![c].pc = "incr_again"]
            /\ UNCHANGED <<results, granted>>
    /\ UNCHANGED <<max_calls, overlap, lapses>>
    /\ UNCHANGED besidesRL

\* lines 66-71: the fallback cache.set(cache_key, 1, self.time_window)
CacheSet(c) ==
    /\ rl[c].pc = "set"
    /\ cache' = 1
    /\ Return(c, 1)
    /\ granted' = Granted(1)
    /\ UNCHANGED <<max_calls, overlap, lapses>>
    /\ UNCHANGED besidesRL

\* lines 98-107: reset() deletes the key; the expiry of the key's time
\* window has the same effect
Reset ==
    /\ lapses < MaxLapses
    /\ cache > 0
    /\ lapses' = lapses + 1
    /\ cache' = 0
    /\ granted' = 0
    /\ UNCHANGED <<max_calls, rl, results, overlap>>
    /\ UNCHANGED besidesRL

NextRL ==
    \/ \E c \in Callers : IsAllowed(c)
    \/ \E c \in Callers : CacheExists(c)
    \/ \E c \in Callers : CacheIncr(c)
    \/ \E c \in Callers : CacheAdd(c)
    \/ \E c \in Callers : CacheSet(c)
    \/ Reset

SpecRL == InitRL /\ [][NextRL]_vars

\* ---------------------------------------------------------- token refresh
\* get_valid_access_token (publish_post_task.py 72-79) and the batch
\* refresh_expiring_tokens, both over refresh_account_token
\* (tiktok_token_refresh_service.py 95-145).  The database is PostgreSQL
\* (settings.py 85-94): select_for_update(skip_locked=True) takes the row
\* lock or finds no row.

\* a row lock that never keeps anyone out
RowLockFreeM(l) == TRUE

\* line 115-117: the row is returned only when no other transaction holds it
RowLockFree(l) == l = "none"

\* tiktok_account_model.py 123-127
NeedsRefresh(a) == ~a.fresh

InitTok ==
    /\ PubQuiet
    /\ RlQuiet
    /\ ChunkQuiet
    /\ SlideQuiet
    /\ acct \in {[NoAccount EXCEPT !.fresh = f] : f \in BOOLEAN}
    /\ rowLock = "none"
    /\ tw = [t \in Refreshers |-> IdleRefresher]
    /\ idpCalls = 0

\* publish_post_task.py 232, 256: the account object comes from the queryset
\* of the post's accounts
TokLoad(t) ==
    /\ tw[t].pc = "idle"
    /\ tw' = [tw EXCEPT ![t].pc = "check", ![t].kind = "publish", ![t].copy = acct]
    /\ UNCHANGED <<acct, rowLock, idpCalls>>
    /\ UNCHANGED besidesTok

\* lines 40-41, 89-93: the batch takes the active accounts that expire soon
TokBatchLoad(t) ==
    /\ tw[t].pc = "idle"
    /\ NeedsRefresh(acct)
    /\ acct.status = "active"
    /\ tw' = [tw EXCEPT ![t].pc = "lock", ![t].kind = "batch", ![t].copy = acct]
    /\ UNCHANGED <<acct, rowLock, idpCalls>>
    /\ UNCHANGED besidesTok

\* publish_post_task.py 74, 79: needs_refresh() of the object in memory
TokCheck(t) ==
    /\ tw[t].pc = "check"
    /\ tw' = IF NeedsRefresh(tw[t].copy)
             THEN [tw EXCEPT ![t].pc = "lock"]
             ELSE [tw EXCEPT ![t].pc = "done", ![t].ret = tw[t].copy]
    /\ UNCHANGED <<acct, rowLock, idpCalls>>
    /\ UNCHANGED besidesTok

\* lines 112-120: with the row locked by another transaction the method
\* returns False
TokLock(t) ==
    /\ tw[t].pc = "lock"
    /\ IF RowLockFree(rowLock)
       THEN /\ rowLock' = t
            /\ tw' = [tw EXCEPT ![t].pc = "call"]
       ELSE /\ UNCHANGED rowLock
            /\ tw' = [tw EXCEPT ![t].skipped = TRUE,
                                ![t].pc = IF tw[t].kind = "publish" THEN "reread" ELSE "done",
                                \* lines 55-56: the batch ignores the returned False
                                ![t].refreshed = IF tw[t].kind = "batch" THEN @ + 1 ELSE @]
    /\ UNCHANGED <<acct, idpCalls>>
    /\ UNCHANGED besidesTok

\* lines 128-145: the identity provider answers, the new tokens are saved
\* and the transaction commits
TokCallReturns(t) ==
    /\ tw[t].pc = "call"
    /\ idpCalls' = idpCalls + 1
    /\ acct' = [acct EXCEPT !.gen = @ + 1, !.fresh = TRUE, !.status = "active"]
    /\ rowLock' = IF rowLock = t THEN "none" ELSE rowLock
    /\ tw' = [tw EXCEPT ![t].pc = IF tw[t].kind = "publish" THEN "reread" ELSE "done",
                        ![t].refreshed = IF tw[t].kind = "batch" THEN @ + 1 ELSE @]
    /\ UNCHANGED besidesTok

\* line 128 raising: the transaction rolls back; get_valid_access_token lets
\* the exception through, refresh_expiring_tokens catches it (lines 62-69)
TokCallRaises(t) ==
    /\ tw[t].pc = "call"
    /\ idpCalls' = idpCalls + 1
    /\ rowLock' = IF rowLock = t THEN "none" ELSE rowLock
    /\ tw' = [tw EXCEPT ![t].pc = IF tw[t].kind = "publish" THEN "raised" ELSE "failed",
                        \* line 63
                        ![t].failed = IF tw[t].kind = "batch" THEN @ + 1 ELSE @]
    /\ UNCHANGED acct
    /\ UNCHANGED besidesTok

\* lines 147-159: _handle_refresh_failure, called by the batch only; the
\* UPDATE waits for the row lock
TokHandleFailure(t) ==
    /\ tw[t].pc = "failed"
    /\ rowLock = "none"
    /\ acct' = [acct EXCEPT !.status = "expired", !.last_error = TRUE]
    /\ tw' = [tw EXCEPT ![t].pc = "done"]
    /\ UNCHANGED <<rowLock, idpCalls>>
    /\ UNCHANGED besidesTok

\* publish_post_task.py 78-79: refresh_from_db() and the token is returned
TokReread(t) ==
    /\ tw[t].pc = "reread"
    /\ tw' = [tw EXCEPT ![t].pc = "done", ![t].copy = acct, ![t].ret = acct]
    /\ UNCHANGED <<acct, rowLock, idpCalls>>
    /\ UNCHANGED besidesTok

NextTok ==
    \/ \E t \in Refreshers : TokLoad(t)
    \/ \E t \in Refreshers : TokBatchLoad(t)
    \/ \E t \in Refreshers : TokCheck(t)
    \/ \E t \in Refreshers : TokLock(t)
    \/ \E t \in Refreshers : TokCallReturns(t)
    \/ \E t \in Refreshers : TokCallRaises(t)
    \/ \E t \in Refreshers : TokHandleFailure(t)
    \/ \E t \in Refreshers : TokReread(t)

SpecTok == InitTok /\ [][NextTok]_vars

\* --------------------------------------------------------- chunked upload
\* TikTokPublishService (tiktok_publish_service.py).  Sizes are counted in
\* units of 1 MiB; byte p of the file is the number p, so that a chunk's data
\* tells which bytes of the file it carries.

\* integer division that drops the last partial chunk
CalculateChunksM(size) ==
    IF size < MIN_CHUNK_SIZE
    THEN [chunk_size |-> size, total_chunks |-> 1]
    ELSE [chunk_size |-> MIN_CHUNK_SIZE, total_chunks |-> size \div MIN_CHUNK_SIZE]

\* lines 47-62: _calculate_chunks; math.ceil(file_size / chunk_size)
CalculateChunks(size) ==
    IF size < MIN_CHUNK_SIZE
    THEN [chunk_size |-> size, total_chunks |-> 1]
    ELSE [chunk_size |-> MIN_CHUNK_SIZE,
          total_chunks |-> (size + MIN_CHUNK_SIZE - 1) \div MIN_CHUNK_SIZE]

Min(a, b) == IF a <= b THEN a ELSE b

FileBytes(size) == [p \in 1..size |-> p - 1]

\* lines 172-173: f.seek(start); f.read(n) gives at most n bytes, up to the
\* end of the file
ReadAt(size, start, n) == SubSeq(FileBytes(size), start + 1, Min(start + n, size))

\* lines 168-170 and 214-218: the range of chunk chunk_index and its data
ChunkOf(size, chunk_size, chunk_index) ==
    LET start_byte == chunk_index * chunk_size
        end_byte == Min(start_byte + chunk_size, size) - 1
        current_chunk_size == end_byte - start_byte + 1
    IN [start_byte |-> start_byte, end_byte |-> end_byte, total |-> size,
        data |-> ReadAt(size, start_byte, current_chunk_size)]

InitChunk ==
    /\ PubQuiet
    /\ RlQuiet
    /\ TokQuiet
    /\ SlideQuiet
    /\ flow \in {"video", "photo"}
    /\ file_size \in IF flow = "video" THEN 0..MaxFileSize ELSE {0}
    /\ plan = NoPlan
    /\ sent = <<>>
    /\ upc = "idle"
    /\ puts = <<>>
    /\ attempt = 0
    /\ max_poll_attempts \in 1..MaxPollAttempts
    /\ polls = <<>>
    /\ outcome = "none"

\* lines 84-89, 128-146: initiate_video_post declares the plan
InitiateVideoPost ==
    /\ flow = "video"
    /\ upc = "idle"
    /\ plan' = CalculateChunks(file_size)
    /\ upc' = "uploading"
    /\ UNCHANGED <<file_size, sent, flow, puts, attempt, max_poll_attempts, polls, outcome>>
    /\ UNCHANGED besidesChunk

\* tiktok_photo_service.py 124-150: the init request of a photo post; the
\* platform pulls the images itself
InitiatePhotoPost ==
    /\ flow = "photo"
    /\ upc = "idle"
    /\ upc' = "photo"
    /\ UNCHANGED <<file_size, plan, sent, flow, puts, attempt, max_poll_attempts, polls,
                   outcome>>
    /\ UNCHANGED besidesChunk

LastAttemptM(a) == a + 1 >= ChunkMaxRetries + 1

\* line 220: for attempt in range(max_retries), attempt counted from 0
LastAttempt(a) == a + 1 >= ChunkMaxRetries

\* lines 167-193 and 220-230: one turn of the loop of upload_video_chunks,
\* the PUT answered 200, 201 or 206
UploadChunk ==
    /\ upc = "uploading"
    /\ Len(sent) < plan.total_chunks
    /\ LET c == ChunkOf(file_size, plan.chunk_size, Len(sent)) IN
       /\ sent' = Append(sent, c)
       /\ puts' = Append(puts, [chunk_index |-> Len(sent), start_byte |-> c.start_byte,
                                ok |-> TRUE])
    /\ attempt' = 0
    /\ upc' = IF Len(sent) + 1 = plan.total_chunks THEN "done" ELSE "uploading"
    /\ UNCHANGED <<file_size, plan, flow, max_poll_attempts, polls, outcome>>
    /\ UNCHANGED besidesChunk

\* lines 220-244: the PUT answered another status or raised a
\* RequestException, and attempts are left
UploadChunkRetry ==
    /\ upc = "uploading"
    /\ Len(sent) < plan.total_chunks
    /\ ~LastAttempt(attempt)
    /\ LET c == ChunkOf(file_size, plan.chunk_size, Len(sent)) IN
       puts' = Append(puts, [chunk_index |-> Len(sent), start_byte |-> c.start_byte,
                             ok |-> FALSE])
    /\ attempt' = attempt + 1
    /\ UNCHANGED <<file_size, plan, sent, upc, flow, max_poll_attempts, polls, outcome>>
    /\ UNCHANGED besidesChunk

\* lines 185-188, 246: the last attempt failed too, _upload_single_chunk
\* returns False and upload_video_chunks raises TikTokPublishError, which
\* publish_video lets through
UploadChunkFails ==
    /\ upc = "uploading"
    /\ Len(sent) < plan.total_chunks
    /\ LastAttempt(attempt)
    /\ LET c == ChunkOf(file_size, plan.chunk_size, Len(sent)) IN
       puts' = Append(puts, [chunk_index |-> Len(sent), start_byte |-> c.start_byte,
                             ok |-> FALSE])
    /\ attempt' = attempt + 1
    /\ upc' = "failed"
    /\ outcome' = "raised"
    /\ UNCHANGED <<file_size, plan, sent, flow, max_poll_attempts, polls>>
    /\ UNCHANGED besidesChunk

\* what the status endpoint may answer; "UNKNOWN" stands for any value the
\* code does not name
StatusValues == {"PUBLISH_COMPLETE", "SEND_TO_USER_INBOX", "FAILED", "PUBLISH_FAILED",
                 "PROCESSING", "UNKNOWN"}

IsSuccessM(st) == st = "PUBLISH_COMPLETE"

\* tiktok_publish_service.py 310, 318; tiktok_photo_service.py 158, 167
IsSuccess(st) == st \in {"PUBLISH_COMPLETE", "SEND_TO_USER_INBOX"}

\* tiktok_publish_service.py 328; tiktok_photo_service.py 177
IsFailure(st) == st \in {"FAILED", "PUBLISH_FAILED"}

\* tiktok_publish_service.py 303-352 and tiktok_photo_service.py 153-196:
\* one turn of the poll loop; after the last turn the loop is left and
\* 'Processing timeout' is returned
CheckPublishStatus ==
    /\ upc \in {"done", "photo"}
    /\ outcome = "none"
    /\ Len(polls) < max_poll_attempts
    /\ \E st \in StatusValues :
         /\ polls' = Append(polls, st)
         /\ outcome' = IF IsSuccess(st) THEN "success"
                       ELSE IF IsFailure(st) THEN "failed"
                       ELSE IF Len(polls) + 1 = max_poll_attempts THEN "timeout"
                       ELSE "none"
    /\ UNCHANGED <<file_size, plan, sent, upc, flow, puts, attempt, max_poll_attempts>>
    /\ UNCHANGED besidesChunk

\* tiktok_publish_service.py 265-267: the status request raises and
\* publish_video lets it through; tiktok_photo_service.py 198-200: the photo
\* flow returns the error
CheckPublishStatusRaises ==
    /\ upc \in {"done", "photo"}
    /\ outcome = "none"
    /\ Len(polls) < max_poll_attempts
    /\ outcome' = IF flow = "video" THEN "raised" ELSE "error"
    /\ UNCHANGED <<file_size, plan, sent, upc, flow, puts, attempt, max_poll_attempts,
                   polls>>
    /\ UNCHANGED besidesChunk

NextChunk ==
    \/ InitiateVideoPost
    \/ InitiatePhotoPost
    \/ UploadChunk
    \/ UploadChunkRetry
    \/ UploadChunkFails
    \/ CheckPublishStatus
    \/ CheckPublishStatusRaises

SpecChunk == InitChunk /\ [][NextChunk]_vars

\* ------------------------------------------------------ convert_slideshow
\* convert_slideshow_task.py 135
slide_retry_delays == <<120, 300>>

\* line 137: retry_delays[min(self.request.retries, len(retry_delays) - 1)]
SlideRetryDelay(retries) ==
    slide_retry_delays[(IF retries < Len(slide_retry_delays) - 1
                        THEN retries ELSE Len(slide_retry_delays) - 1) + 1]

\* convert_slideshow.delay(post_id): a message of a new job
SlideDelay(q, j) == q \cup {[job |-> j, retries |-> 0, countdown |-> 0]}

\* post_service.py 222-330: create_slideshow_post with is_draft False has
\* created the post as 'pending' with its source images and queued one job
InitSlide ==
    /\ PubQuiet
    /\ RlQuiet
    /\ TokQuiet
    /\ ChunkQuiet
    /\ spost = [status |-> "pending", err |-> FALSE]
    /\ senv \in [post : BOOLEAN, images : BOOLEAN, files : BOOLEAN, ffmpeg : BOOLEAN]
    /\ sq = SlideDelay({}, 1)
    /\ sw = [w \in SlideWorkers |-> IdleSlideWorker]
    /\ svideos = {}
    /\ slink = 0
    /\ sruns = [j \in Jobs |-> 0]
    /\ sreqs = 0

\* lines 39-77: a worker takes a message; a missing post, no source image,
\* a missing file or missing FFmpeg end the run at once
SlideStart(w) ==
    /\ sw[w].pc = "idle"
    /\ \E msg \in sq :
         /\ sq' = sq \ {msg}
         /\ sruns' = [sruns EXCEPT ![msg.job] = @ + 1]
         /\ sw' = IF senv.post /\ senv.images /\ senv.files /\ senv.ffmpeg
                  THEN [sw EXCEPT ![w] = [pc |-> "convert", job |-> msg.job,
                                          retries |-> msg.retries]]
                  ELSE sw
    /\ UNCHANGED <<spost, senv, svideos, slink, sreqs>>
    /\ UNCHANGED besidesSlide

\* lines 88-92: create_slideshow returns
SlideConverted(w) ==
    /\ sw[w].pc = "convert"
    /\ sw' = [sw EXCEPT ![w].pc = "save"]
    /\ UNCHANGED <<spost, senv, sq, svideos, slink, sruns, sreqs>>
    /\ UNCHANGED besidesSlide

\* lines 131-148: create_slideshow raised SlideshowConversionError
SlideConversionError(w) ==
    /\ sw[w].pc = "convert"
    /\ sq' = IF sw[w].retries < SlideMaxRetries
             THEN sq \cup {[job |-> sw[w].job, retries |-> sw[w].retries + 1,
                            countdown |-> SlideRetryDelay(sw[w].retries)]}
             ELSE sq
    /\ sw' = [sw EXCEPT ![w] = IdleSlideWorker]
    /\ UNCHANGED <<spost, senv, svideos, slink, sruns, sreqs>>
    /\ UNCHANGED besidesSlide

\* lines 150-161: any other exception (ValueError of the image validation,
\* an OSError, a database error)
SlideUnexpectedError(w) ==
    /\ sw[w].pc = "convert"
    /\ sq' = IF sw[w].retries < SlideMaxRetries
             THEN sq \cup {[job |-> sw[w].job, retries |-> sw[w].retries + 1,
                            countdown |-> 120]}
             ELSE sq
    /\ sw' = [sw EXCEPT ![w] = IdleSlideWorker]
    /\ UNCHANGED <<spost, senv, svideos, slink, sruns, sreqs>>
    /\ UNCHANGED besidesSlide

\* lines 95-125: the video row is created with is_processed True and all
\* source images are linked to it, in one transaction
SlideSave(w) ==
    /\ sw[w].pc = "save"
    /\ LET id == Cardinality(svideos) + 1 IN
       /\ svideos' = svideos \cup {[id |-> id, is_processed |-> TRUE]}
       /\ slink' = id
    /\ sw' = [sw EXCEPT ![w] = IdleSlideWorker]
    /\ UNCHANGED <<spost, senv, sq, sruns, sreqs>>
    /\ UNCHANGED besidesSlide

\* post_router.py 341-393: the retry endpoint.  It answers 400 when the
\* first slideshow_video is processed or when there is no source image;
\* otherwise it deletes the unprocessed video, resets the post and queues a
\* new job.
RetrySlideshowConversion ==
    /\ sreqs < MaxRetryRequests
    /\ senv.post
    /\ sreqs' = sreqs + 1
    /\ LET generated_video ==
             IF svideos = {} THEN [id |-> 0, is_processed |-> FALSE]
             ELSE CHOOSE v \in svideos : \A u \in svideos : v.id <= u.id IN
       IF (generated_video.id # 0 /\ generated_video.is_processed) \/ ~senv.images
       THEN UNCHANGED <<spost, sq, svideos>>
       ELSE /\ svideos' = svideos \ {generated_video}
            /\ spost' = [status |-> "pending", err |-> FALSE]
            /\ sq' = SlideDelay(sq, sreqs + 2)
    /\ UNCHANGED <<senv, sw, slink, sruns>>
    /\ UNCHANGED besidesSlide

NextSlide ==
    \/ \E w \in SlideWorkers : SlideStart(w)
    \/ \E w \in SlideWorkers : SlideConverted(w)
    \/ \E w \in SlideWorkers : SlideConversionError(w)
    \/ \E w \in SlideWorkers : SlideUnexpectedError(w)
    \/ \E w \in SlideWorkers : SlideSave(w)
    \/ RetrySlideshowConversion

SpecSlide == InitSlide /\ [][NextSlide]_vars

\* ------------------------------------------ check_scheduled_posts alone
\* The poller run on a scheduled row in its time window, with any
\* retry_count and any max_retries the columns can hold within the bounds.
InitPoll ==
    /\ \E sc \in {"soon", "due"} : \E rc \in 0..MaxRetryCount :
          post = [status |-> "scheduled", retry_count |-> rc, err |-> rc > 0,
                  pub |-> FALSE, sched |-> sc]
    /\ maxRetries \in 1..MaxBudget
    /\ targets = {"a1"}
    /\ media = {"video"}
    /\ hist = {}
    /\ queue = [r \in 0..TaskMaxRetries |-> 0]
    /\ wk = [w \in Workers |-> IdleWorker]
    /\ pn = IdleRequest
    /\ poll = [p \in Pollers |-> IdlePoller]
    /\ uploads = [a \in Accounts |-> 0]
    /\ accepted = [a \in Accounts |-> 0]
    /\ cycles = 0
    /\ pollEnq = 0
    /\ faults = 0
    /\ edits = 0
    /\ noops = 0
    /\ RlQuiet
    /\ TokQuiet
    /\ ChunkQuiet
    /\ SlideQuiet

NextPoll ==
    \/ \E p \in Pollers : PollQuery(p)
    \/ \E p \in Pollers : PollProcess(p)

SpecPoll == InitPoll /\ [][NextPoll]_vars

\* ------------------------------------------------------------ behaviours
Next ==
    \/ BulkSchedule
    \/ \E p \in Pollers : PollQuery(p)
    \/ \E p \in Pollers : PollProcess(p)
    \/ \E p \in Pollers : PollProcessRaises(p)
    \/ \E w \in Workers : PublishStart(w)
    \/ \E w \in Workers : PublishNoAccounts(w)
    \/ \E w \in Workers : PublishCreate(w)
    \/ \E w \in Workers : PublishCreateRaises(w)
    \/ \E w \in Workers : PublishAttempt(w)
    \/ \E w \in Workers : PublishFinish(w)
    \/ \E w \in Workers : PublishHandler(w)
    \/ PublishNowStart
    \/ PublishNowAttempt
    \/ PublishNowFinish
    \/ UpdatePost
    \/ RetrySlideshow

Spec == Init /\ [][Next]_vars

\* Celery runs every delivered task and every started task to its end, beat
\* keeps running check_scheduled_posts, and a request handler that has
\* started returns; nothing is assumed about what clients ask for.
Fairness ==
    /\ \A p \in Pollers : WF_vars(PollProcess(p) \/ PollProcessRaises(p))
    /\ \A w \in Workers :
         WF_vars(PublishStart(w) \/ PublishNoAccounts(w) \/ PublishCreate(w)
                   \/ PublishCreateRaises(w) \/ PublishAttempt(w)
                   \/ PublishFinish(w) \/ PublishHandler(w))
    /\ WF_vars(PublishNowAttempt \/ PublishNowFinish)

SpecLive == Init /\ [][Next]_vars /\ Fairness

TypeOK ==
    /\ post.status \in Statuses
    /\ cycles \in 0..MaxCycles
    /\ faults \in 0..MaxFaults
    /\ edits \in 0..MaxEdits

\* --------------------------------------------------------------- claims
\* C1: a publish_post run that finds the post already published is a no-op:
\* it returns 'already_published' and leaves the post row, the history rows
\* and the remote side untouched, however often it is repeated.
C1_AlreadyPublishedNoOp ==
    [][(post.status = "published" /\ \E r \in 0..TaskMaxRetries : queue'[r] < queue[r])
        => /\ post' = post
           /\ hist' = hist
           /\ uploads' = uploads
           /\ accepted' = accepted
           /\ wk' = wk
           /\ noops' = noops + 1]_vars

C1_Witness == post.status = "published" /\ noops >= 2

\* C2: two publish_post runs for the same post are never both at the remote
\* upload for the same account.
C2_NoConcurrentUpload ==
    \A w1, w2 \in Workers :
        (w1 # w2 /\ wk[w1].pc = "attempt" /\ wk[w2].pc = "attempt")
            => Head(wk[w1].todo) # Head(wk[w2].todo)

\* C3: the poller runs, sequential or overlapping, enqueue at most one
\* publish job for a post that was scheduled once.
C3_EnqueuedOnce == pollEnq <= 1

ActsOn(w, a) ==
    /\ wk[w].pc = "attempt"
    /\ Head(wk[w].todo) = a
    /\ wk'[w] # wk[w]
    /\ uploads'[a] > uploads[a]

\* C4: with no database error, a retry cycle makes no remote publish call
\* for an account that has a 'success' row from an earlier cycle of the post.
C4_NoRepublishOnRetry ==
    [][\A w \in Workers : \A a \in Accounts :
         (faults = 0 /\ wk[w].retries > 0 /\ ActsOn(w, a))
            => ~\E r \in hist : r.acct = a /\ r.status = "success" /\ r.cyc < wk[w].cyc]_vars

\* C5: with one enqueue by the poller, no user request in between and no
\* database error, the retry count of the post never exceeds its max_retries.
C5_RetryBudget ==
    (edits = 0 /\ pollEnq <= 1 /\ faults = 0) => post.retry_count <= maxRetries

\* C6: once the post is published its status never changes again, whatever
\* publish cycles and poller runs are still under way (no user edit, no
\* slideshow retry and no database error is needed for the case).
C6_PublishedTerminal ==
    [][(post.status = "published" /\ edits' = 0 /\ faults' = 0)
          => post'.status = "published"]_vars

StatusEdges ==
    {<<"draft", "scheduled">>, <<"scheduled", "pending">>, <<"pending", "publishing">>,
     <<"publishing", "published">>, <<"publishing", "failed">>, <<"failed", "pending">>}

\* C7: every change of the post's status follows an edge of
\* draft -> scheduled -> pending -> publishing -> {published | failed}
\* or the retry edge failed -> pending.
C7_ForwardOnly ==
    [][post'.status # post.status => <<post.status, post'.status>> \in StatusEdges]_vars

\* the worker whose step this is ends cycle c (lines 365-398)
TaskFinishing(c) ==
    \E w \in Workers : wk[w].cyc = c /\ wk[w].pc = "finish" /\ wk'[w].pc # "finish"

\* the cycle whose last step (lines 365-398, or publish_now 172-189) this is
Finishing(c) ==
    \/ TaskFinishing(c)
    \/ pn.cyc = c /\ pn.pc = "finish" /\ pn'.pc = "idle"

AllSucceeded(c) ==
    /\ \A a \in targets : \E r \in hist : r.cyc = c /\ r.acct = a /\ r.status = "success"
    /\ \A r \in hist : r.cyc = c => r.status = "success"

C9_OwnRowOnly ==
    [][/\ \A r \in hist :
            r \notin hist'
               => \E w \in Workers : /\ wk[w].cyc = r.cyc
                                     /\ wk[w].todo # <<>>
                                     /\ Head(wk[w].todo) = r.acct
       /\ \A c \in 1..MaxCycles :
            TaskFinishing(c)
               => \A a \in targets : Cardinality(RowsOf(hist, c, a)) = 1]_vars

RECURSIVE CountTrue(_)
CountTrue(s) == IF s = <<>> THEN 0 ELSE (IF Head(s) THEN 1 ELSE 0) + CountTrue(Tail(s))

\* C10: with no reset or expiry of the key, once the N calls made so far have
\* all returned, exactly min(N, max_calls) of them returned true; and when no
\* two calls overlapped, the first max_calls returned true and the later ones
\* false.
C10_AdmitsMinNK ==
    (lapses = 0 /\ InProgress = {})
        => /\ CountTrue(results) = Min(Len(results), max_calls)
           /\ ~overlap => \A i \in 1..Len(results) : results[i] = (i <= max_calls)

C10_Witness ==
    /\ lapses = 0
    /\ InProgress = {}
    /\ overlap
    /\ Len(results) = MaxCallsMade
    /\ CountTrue(results) = max_calls

\* C11: publish attempts that get the token of one account which expires
\* within the hour call the identity provider's refresh endpoint once in
\* total, when no call fails.
C11_RefreshOnce ==
    (\A t \in Refreshers : tw[t].kind = "publish" /\ tw[t].pc # "raised")
        => idpCalls <= 1

InCall == {t \in Refreshers : tw[t].pc = "call"}

\* C12: at most one worker is inside the identity-provider call, it holds
\* the row lock of the account, and a worker that found the row locked never
\* makes the call.
C12_ExclusiveRefresh ==
    /\ Cardinality(InCall) <= 1
    /\ \A t \in InCall : rowLock = t
    /\ \A t \in Refreshers : tw[t].skipped => tw[t].pc \in {"reread", "done"}

C12_Witness ==
    \E t, u \in Refreshers : tw[t].pc = "call" /\ tw[u].skipped

\* C13: a token that get_valid_access_token returns belongs to a credential
\* that expires more than one hour from now.
C13_ReturnsFreshToken ==
    \A t \in Refreshers :
        (tw[t].kind = "publish" /\ tw[t].pc = "done") => tw[t].ret.fresh

\* C14: when the refresh call raises inside get_valid_access_token the
\* account is marked 'expired' with last_error set, and its tokens and expiry
\* stay as they were.
C14_FailureMarksExpired ==
    [][\A t \in Refreshers :
         (tw[t].kind = "publish" /\ tw[t].pc = "call" /\ tw'[t].pc = "raised")
            => /\ acct'.status = "expired"
               /\ acct'.last_error
               /\ acct'.gen = acct.gen
               /\ acct'.fresh = acct.fresh]_vars

RECURSIVE Concat(_)
Concat(chunks) ==
    IF chunks = <<>> THEN <<>> ELSE Head(chunks).data \o Concat(Tail(chunks))

\* C15: when upload_video_chunks has sent every chunk of the plan, the
\* ranges start at byte 0, follow each other without gap or overlap, end at
\* byte size-1, each range is as long as its data, and the data in order is
\* the file.
C15_ChunksReproduceFile ==
    upc = "done"
        => /\ Len(sent) = plan.total_chunks
           /\ sent[1].start_byte = 0
           /\ sent[Len(sent)].end_byte = file_size - 1
           /\ \A i \in 1..(Len(sent) - 1) : sent[i + 1].start_byte = sent[i].end_byte + 1
           /\ \A i \in 1..Len(sent) :
                /\ sent[i].end_byte - sent[i].start_byte + 1 = Len(sent[i].data)
                /\ sent[i].total = file_size
           /\ Concat(sent) = FileBytes(file_size)

C15_Witness ==
    /\ upc = "done"
    /\ Len(sent) >= 3
    /\ file_size % MIN_CHUNK_SIZE # 0

\* init request and chunk PUTs made to the platform by the upload so far
RemoteCalls == (IF upc = "idle" THEN 0 ELSE 1) + Len(sent)

\* C16: the upload makes no more calls to the platform than is_allowed has
\* returned true: every outbound call has a permission of the rate limiter.
C16_CallsArePermitted == RemoteCalls <= CountTrue(results)

\* the ladder of delays: before the 1st, the 2nd and any later retry
LadderDelay(n) == IF n = 1 THEN 300 ELSE IF n = 2 THEN 900 ELSE 1800

\* C17: the countdown of the retry a failed cycle schedules depends on the
\* number of that retry only: 300 s for the 1st, 900 s for the 2nd, 1800 s
\* from the 3rd on.
C17_RetryLadder ==
    [][\A w \in Workers :
         (wk[w].pc = "finish" /\ wk'[w].pc = "handler")
           => wk'[w].countdown = LadderDelay(wk[w].retries + 1)]_vars

\* C18: a cycle of a post without publishable media (no video, no image
\* usable as a photo) records the failure and schedules no retry: no step
\* of such a post adds a retry message to the queue.
C18_NoMediaIsFatal ==
    [][(~HasVideoMedia /\ faults' = 0)
         => \A r \in 1..TaskMaxRetries : queue'[r] <= queue[r]]_vars

\* C19: publish_post on a post without target accounts sets the post failed
\* with an error message and returns: no history row is created, retry_count
\* keeps its value and no retry is queued.
C19_NoAccounts ==
    [][\A w \in Workers :
         (wk[w].pc = "accounts" /\ wk'[w] # wk[w])
           => /\ post'.status = "failed"
              /\ post'.err
              /\ post'.retry_count = post.retry_count
              /\ hist' = hist
              /\ queue' = queue
              /\ wk'[w] = IdleWorker]_vars

\* the poller's message was taken by the only cycle run, which found no account
C19_Witness ==
    /\ targets = {}
    /\ post.status = "failed" /\ post.err
    /\ cycles = 1 /\ pollEnq = 1
    /\ \A r \in 0..TaskMaxRetries : queue[r] = 0
    /\ \A w \in Workers : wk[w] = IdleWorker
    /\ hist = {}

\* C20: among the scheduled posts in the time window the poller selects
\* exactly those whose retry_count is below their own max_retries, and it
\* enqueues no post whose retry_count has reached max_retries.
C20_OwnBudget ==
    /\ (post.status = "scheduled" /\ post.sched \in {"soon", "due"})
         => (Selected(post) <=> post.retry_count < maxRetries)
    /\ pollEnq > 0 => post.retry_count < maxRetries

\* C21: when a run of refresh_expiring_tokens has finished with the account,
\* the account was counted once (refreshed + failed = 1 = total), it is
\* counted as refreshed only if this run replaced its credential, and as
\* failed only if the refresh raised.
C21_BatchCounts ==
    \A t \in Refreshers :
      (tw[t].kind = "batch" /\ tw[t].pc = "done")
        => /\ tw[t].refreshed + tw[t].failed = 1
           /\ tw[t].refreshed = 1 => (~tw[t].skipped /\ acct.gen >= 1)
           /\ tw[t].failed = 1 => ~tw[t].skipped

\* C22: whatever executions of convert_slideshow have run for the post, it
\* has at most one slideshow_video row, that row is processed, and the
\* source images link to it.
C22_OneSlideshowVideo ==
    /\ Cardinality(svideos) <= 1
    /\ \A v \in svideos : v.is_processed /\ slink = v.id

\* C23: an execution that ends in a failed conversion leaves its error in
\* the post's error_message, and when it was the last retry the post is in
\* a failed state.
C23_FailureRecorded ==
    [][\A w \in SlideWorkers :
         (sw[w].pc = "convert" /\ sw'[w].pc = "idle")
           => /\ spost'.err
              /\ sw[w].retries >= SlideMaxRetries => spost'.status = "failed"]_vars

\* C29: a conversion job runs at most 3 times (the first attempt and at most
\* 2 retries); its first retry is sent with a countdown of 120 s and its
\* second with 300 s, whatever the failure was; a run that ends for a missing
\* post, missing source images, a missing file or missing FFmpeg sends no
\* retry.
C29_SlideRetries ==
    [][/\ \A j \in Jobs : sruns'[j] <= SlideMaxRetries + 1
       /\ \A msg \in sq' : /\ msg.retries <= SlideMaxRetries
                           /\ msg.retries = 1 => msg.countdown = 120
                           /\ msg.retries = 2 => msg.countdown = 300
       /\ ~(senv.post /\ senv.images /\ senv.files /\ senv.ffmpeg)
            => \A msg \in sq' \ sq : msg.retries = 0]_vars

\* no publish job is queued or running
NoJob ==
    /\ \A r \in 0..TaskMaxRetries : queue[r] = 0
    /\ \A w \in Workers : wk[w].pc = "idle"
    /\ pn.pc = "idle"

\* C24: a post the poller has moved to 'pending' eventually is 'published',
\* or 'failed' with no retry queued or running (or the cycles followed are
\* used up).
C24_EventuallySettled ==
    (post.status = "pending" /\ post.sched = "due" /\ edits = 0)
      ~> \/ post.status \in {"published", "failed"} /\ NoJob
         \/ cycles = MaxCycles
         \/ edits > 0

\* a row as PublishHistory.objects.create(status='failed') of the task
\* leaves it, its outcome not written yet
OutcomeOpen(r) == r.status = "failed" /\ ~r.err

\* a row whose outcome is written: success, or failed with an error message
OutcomeWritten(r) == (r.status = "success" /\ ~r.err) \/ (r.status = "failed" /\ r.err)

\* C25: PublishHistory is append-only: no step removes a row or lowers the
\* number of rows, and a step changes a row only by writing the outcome of
\* a row whose outcome was not written yet.
C25_AppendOnly ==
    [][/\ Cardinality(hist') >= Cardinality(hist)
       /\ \A r \in hist :
            \E r2 \in hist' :
               /\ RowKey(r2) = RowKey(r)
               /\ r2 = r \/ (OutcomeOpen(r) /\ OutcomeWritten(r2))]_vars

\* C26: the end of a failed cycle adds exactly one to the retry_count the
\* cycle read and queues at most one retry, and the task's generic handler
\* does not handle the retry signal again: once the retry is sent, the run
\* ends without another change of retry_count or of the queue.
C26_OneIncrementOneRetry ==
    [][\A w \in Workers :
         /\ (wk[w].pc = "finish" /\ ~wk[w].allok /\ wk'[w].pc # "finish")
              => /\ post'.retry_count = wk[w].lp.retry_count + 1
                 /\ \A r \in 0..TaskMaxRetries : queue'[r] <= queue[r] + 1
         /\ (wk[w].pc = "handler" /\ wk'[w].pc = "idle")
              => /\ post'.retry_count = post.retry_count
                 /\ queue' = queue]_vars

\* the PUT requests made for chunk i
PutsOf(i) == {k \in 1..Len(puts) : puts[k].chunk_index = i}

\* C27: every PUT is for the chunk that follows the chunks acknowledged so
\* far, so chunk i+1 is sent only after chunk i was accepted; no chunk is
\* put more than 3 times; and when a chunk was refused 3 times the transfer
\* has failed with that PUT as the last one and no status check made.
C27_SequentialChunks ==
    /\ \A k \in 1..Len(puts) :
         puts[k].chunk_index = Cardinality({j \in 1..(k - 1) : puts[j].ok})
    /\ \A k \in 1..Len(puts) : Cardinality(PutsOf(puts[k].chunk_index)) <= 3
    /\ \A k \in 1..Len(puts) :
         (Cardinality({j \in PutsOf(puts[k].chunk_index) : ~puts[j].ok}) = 3)
           => /\ upc = "failed"
              /\ outcome = "raised"
              /\ ~puts[Len(puts)].ok
              /\ polls = <<>>
    /\ upc = "failed" => polls = <<>>

\* a chunk was accepted at its second attempt and a later chunk refused 3 times
C27_Witness ==
    /\ upc = "failed"
    /\ Len(sent) >= 1
    /\ \E k \in 1..Len(puts) : ~puts[k].ok /\ puts[k].chunk_index = 0

SuccessStatuses == {"PUBLISH_COMPLETE", "SEND_TO_USER_INBOX"}

FailureStatuses == {"FAILED", "PUBLISH_FAILED"}

\* C28: the poll loop makes at most max_poll_attempts status checks; only
\* the last status received can be a terminal one; a success status ends
\* the loop with success, a failure status with failure, any other status
\* keeps it polling, and the bound reached without a terminal status ends it
\* with a timeout.  The video flow and the photo flow behave alike.
C28_PollLoop ==
    /\ Len(polls) <= max_poll_attempts
    /\ \A k \in 1..(Len(polls) - 1) : polls[k] \notin SuccessStatuses \cup FailureStatuses
    /\ polls # <<>> =>
         LET last == polls[Len(polls)] IN
         /\ last \in SuccessStatuses <=> outcome = "success"
         /\ last \in FailureStatuses <=> outcome = "failed"
         /\ last \notin SuccessStatuses \cup FailureStatuses
              => IF Len(polls) = max_poll_attempts THEN outcome = "timeout"
                 ELSE outcome \in {"none", "raised", "error"}
    /\ outcome \in {"success", "failed", "timeout"} => polls # <<>>

\* the photo flow sent to the inbox after an intermediate status
C28_Witness ==
    /\ flow = "photo"
    /\ Len(polls) >= 2
    /\ polls[Len(polls)] = "SEND_TO_USER_INBOX"
    /\ outcome = "success"

\* C30: however the key expires or is reset while calls are under way, the
\* calls that returned true since the key now in the cache was created are
\* never more than max_calls.
C30_NoOverwrite == granted <= max_calls

====
